---- MODULE Spec2Model ----
(***************************************************************************)
(* Model of parlai/tasks/topical_chat: the knowledge resolver              *)
(* (_get_chosen_title_and_sent), the three teachers (TopicalChatTeacher,   *)
(* TopicalChatDialogKnowledgeTeacher, GeneratorTeacher) over a loaded list *)
(* of episodes, and the conversation drivers of worlds.py.                 *)
(*                                                                         *)
(* Python strings are TLA+ strings.  A Python dict is an ordered dict: a   *)
(* sequence of entries [k |-> key, v |-> value] in insertion order with    *)
(* pairwise different keys.  A JSON object whose key may be missing        *)
(* carries the set `keys` of the optional keys it has.                     *)
(***************************************************************************)
EXTENDS Integers, Sequences, FiniteSets, TLC

VARIABLES
    file,       \* the episodes as stored in the JSON file (never written)
    data,       \* self.data: the loaded episode list, shared by reference
    teacher,    \* class and options of the teacher instances of the group
    nTeachers,  \* number of teacher instances sharing `data`
    call,       \* the last get call: who, episode_idx, entry_idx
    result,     \* what the last get call returned or raised
    r_entry,    \* resolver harness: wizard_entry argument
    r_kdict,    \* resolver harness: k_dict argument
    r_out,      \* resolver harness: returned pair or raised exception
    w_opt,      \* world: opt['gold_knowledge_delimiter']
    w_history,  \* world: model_agent.history, the replies added so far
    w_observed, \* world: the messages handed to model_agent.observe by the last parley
    w_call,     \* world: which parley ran last
    w_input     \* world: the inputs and the knowledge key of the last parley

vars == <<file, data, teacher, nTeachers, call, result,
          r_entry, r_kdict, r_out, w_opt, w_history, w_observed, w_call,
          w_input>>

teacherVars == <<file, data, teacher, nTeachers, call, result>>
resolverVars == <<r_entry, r_kdict, r_out>>
worldVars == <<w_opt, w_history, w_observed, w_call, w_input>>

(***************************************************************************)
(* Bounds of the model.                                                    *)
(***************************************************************************)
MaxTurns == 4
MaxTeachers == 2
MaxHistory == 2
MaxBatch == 2

(***************************************************************************)
(* Module constants of agents.py.                                          *)
(***************************************************************************)
TOKEN_NOCHOSEN == "no_passages_used"
TOKEN_KNOWLEDGE == "__knowledge__"
TOKEN_END_KNOWLEDGE == "__endknowledge__"

(***************************************************************************)
(* String helpers: the str methods the code uses.                          *)
(***************************************************************************)
Ch(s, i) == SubSeq(s, i, i)

\* s.split('_')[-1]: the part of s after its last underscore (all of s if none)
RECURSIVE LastSegmentFrom(_, _)
LastSegmentFrom(s, i) ==
    IF i = 0 THEN s
    ELSE IF Ch(s, i) = "_" THEN SubSeq(s, i + 1, Len(s))
    ELSE LastSegmentFrom(s, i - 1)

LastSegment(s) == LastSegmentFrom(s, Len(s))

\* ' '.join(s) for a string s: its characters separated by single spaces
RECURSIVE JoinChars(_)
JoinChars(s) ==
    IF Len(s) <= 1 THEN s
    ELSE Ch(s, 1) \o " " \o JoinChars(SubSeq(s, 2, Len(s)))

IsSpace(c) == c \in {" ", "\n", "\t"}

RECURSIVE LStrip(_)
LStrip(s) ==
    IF Len(s) > 0 /\ IsSpace(Ch(s, 1)) THEN LStrip(SubSeq(s, 2, Len(s))) ELSE s

RECURSIVE RStrip(_)
RStrip(s) ==
    IF Len(s) > 0 /\ IsSpace(Ch(s, Len(s))) THEN RStrip(SubSeq(s, 1, Len(s) - 1)) ELSE s

\* str.strip()
Strip(s) == RStrip(LStrip(s))

\* sub in s
Contains(s, sub) ==
    \E i \in 1..(Len(s) + 1) :
        /\ i + Len(sub) - 1 <= Len(s)
        /\ SubSeq(s, i, i + Len(sub) - 1) = sub

\* '{} {}'.format(a, b)
Format2(a, b) == a \o " " \o b

\* '{} {} {}'.format(a, b, c)
Format3(a, b, c) == a \o " " \o b \o " " \o c

(***************************************************************************)
(* Ordered dicts.                                                          *)
(***************************************************************************)
EmptyDict == << >>

Entry(key, val) == [k |-> key, v |-> val]

DictKeys(d) == {d[i].k : i \in DOMAIN d}

HasKey(d, key) == \E i \in DOMAIN d : d[i].k = key

\* d[key], for a key of d
Lookup(d, key) == d[CHOOSE i \in DOMAIN d : d[i].k = key].v

\* x in seq, for a list
InList(x, seq) == \E i \in DOMAIN seq : seq[i] = x

\* dict.get(key, default) of a JSON object with optional keys
HasField(obj, key) == key \in obj.keys

first_val(dictionary) ==
    IF Len(dictionary) > 0 THEN dictionary[1].v ELSE ""

first_key(dictionary) ==
    IF Len(dictionary) > 0 THEN dictionary[1].k ELSE ""

(***************************************************************************)
(* _get_chosen_title_and_sent (agents.py 47-84).  The result is            *)
(* [exc |-> "none", title, sentence] or [exc |-> <exception name>].        *)
(***************************************************************************)
Raised(name) == [exc |-> name]

Pair(t, s) == [exc |-> "none", title |-> t, sentence |-> s]

\* for t, passage in k_dict.items(): if sentence in passage: title = t; break
\* (title stays '' when no passage holds the sentence)
RECURSIVE ScanTitle(_, _)
ScanTitle(k_dict, sentence) ==
    IF Len(k_dict) = 0 THEN ""
    ELSE IF InList(sentence, Head(k_dict).v) THEN Head(k_dict).k
    ELSE ScanTitle(Tail(k_dict), sentence)

\* lines 70-82: the choice among cand_title1, cand_title2 and the scan
ChooseTitle(cand_title1, cand_title2, k_dict, sentence) ==
    IF /\ cand_title1 # ""
       /\ HasKey(k_dict, cand_title1)
       /\ InList(sentence, Lookup(k_dict, cand_title1))
    THEN cand_title1
    ELSE IF HasKey(k_dict, cand_title2) /\ InList(sentence, Lookup(k_dict, cand_title2))
    THEN cand_title2
    ELSE ScanTitle(k_dict, sentence)

\* line 69: ' '.join(_first_key(sentence_dict).split('_')[-1])
CandTitle2(sentence_dict) == JoinChars(LastSegment(first_key(sentence_dict)))

\* mutant of get_chosen_title_and_sent: the test sentence == TOKEN_NOCHOSEN
\* of line 61 is missing, so a no_passages_used sentence is looked up like
\* any other
get_chosen_title_and_sent_NoSentinelTest(wizard_entry, k_dict) ==
    LET sentence_dict ==
            IF HasField(wizard_entry, "checked_sentence")
            THEN wizard_entry.checked_sentence ELSE EmptyDict
    IN  IF Len(sentence_dict) = 0
        THEN Pair(TOKEN_NOCHOSEN, TOKEN_NOCHOSEN)
        ELSE IF ~HasField(wizard_entry, "checked_passage")
        THEN Raised("AttributeError")
        ELSE LET sentence == first_val(sentence_dict)
                 title_dict == wizard_entry.checked_passage
                 cand_title1 ==
                     IF Len(title_dict) > 0 THEN first_val(title_dict) ELSE ""
             IN  Pair(ChooseTitle(cand_title1, CandTitle2(sentence_dict), k_dict,
                                  sentence),
                      sentence)

get_chosen_title_and_sent(wizard_entry, k_dict) ==
    LET sentence_dict ==
            IF HasField(wizard_entry, "checked_sentence")
            THEN wizard_entry.checked_sentence ELSE EmptyDict
    IN  IF Len(sentence_dict) = 0
        THEN Pair(TOKEN_NOCHOSEN, TOKEN_NOCHOSEN)
        ELSE LET sentence == first_val(sentence_dict)
             IN  IF sentence = TOKEN_NOCHOSEN
                 THEN Pair(TOKEN_NOCHOSEN, sentence)
                 \* title_dict defaults to the str 'none', which is truthy, and
                 \* _first_val('none') calls 'none'.values(): AttributeError
                 ELSE IF ~HasField(wizard_entry, "checked_passage")
                 THEN Raised("AttributeError")
                 ELSE LET title_dict == wizard_entry.checked_passage
                          cand_title1 ==
                              IF Len(title_dict) > 0 THEN first_val(title_dict) ELSE ""
                          cand_title2 == CandTitle2(sentence_dict)
                      IN  Pair(ChooseTitle(cand_title1, cand_title2, k_dict, sentence),
                               sentence)

(***************************************************************************)
(* TopicalChatTeacher.get (agents.py 155-171): the raw turn.               *)
(***************************************************************************)
TopicalChatGet(dat, episode_idx, entry_idx) ==
    LET d == dat[episode_idx]
        dialog_entry == d.dialog[entry_idx + 1]
        episode_done == (entry_idx = Len(d.dialog) - 1)
    IN  [exc |-> "none",
         data |-> dat,
         msg |-> [chosen_topic |-> d.chosen_topic,
                  chosen_topic_passage |-> d.chosen_topic_passage,
                  text |-> dialog_entry.text,
                  retrieved_topics |-> dialog_entry.retrieved_topics,
                  retrieved_passages |-> dialog_entry.retrieved_passages,
                  checked_sentence |-> dialog_entry.checked_sentence,
                  checked_passage |-> dialog_entry.checked_passage,
                  \* .get(key, None): the optional keys that are not None
                  keys |-> dialog_entry.keys \cap {"checked_sentence", "checked_passage"},
                  episode_done |-> episode_done]]

(***************************************************************************)
(* TopicalChatDialogKnowledgeTeacher (agents.py 182-365).                  *)
(***************************************************************************)
\* mutant of len_episode: the wizard-first count of the commented-out lines 260-262
len_episode_WizardFirst(dat, ep) == (Len(dat[ep].dialog) - 1) \div 2

len_episode(dat, ep) == Len(dat[ep].dialog) \div 2

\* mutant of MergePassage: knowledge_dict[k] = v without the membership test,
\* so a later passage overwrites the sentences of a title already present
RECURSIVE MergePassage_Overwrite(_, _)
MergePassage_Overwrite(knowledge_dict, passage) ==
    IF Len(passage) = 0 THEN knowledge_dict
    ELSE MergePassage_Overwrite(
             IF HasKey(knowledge_dict, Head(passage).k)
             THEN [n \in DOMAIN knowledge_dict |->
                      IF knowledge_dict[n].k = Head(passage).k
                      THEN Head(passage) ELSE knowledge_dict[n]]
             ELSE Append(knowledge_dict, Head(passage)),
             Tail(passage))

\* lines 300-302: for k, v in passage.items(): if k not in knowledge_dict
RECURSIVE MergePassage(_, _)
MergePassage(knowledge_dict, passage) ==
    IF Len(passage) = 0 THEN knowledge_dict
    ELSE MergePassage(
             IF HasKey(knowledge_dict, Head(passage).k)
             THEN knowledge_dict
             ELSE Append(knowledge_dict, Head(passage)),
             Tail(passage))

\* line 299: for passage in ret_passes
RECURSIVE MergeRetPasses(_, _)
MergeRetPasses(knowledge_dict, ret_passes) ==
    IF Len(ret_passes) = 0 THEN knowledge_dict
    ELSE MergeRetPasses(MergePassage(knowledge_dict, Head(ret_passes)), Tail(ret_passes))

\* line 298: for ret_passes in [apprentice_ret_passages, wizard_ret_passages]
MergeKnowledge(knowledge_dict, apprentice_ret_passages, wizard_ret_passages) ==
    MergeRetPasses(MergeRetPasses(knowledge_dict, apprentice_ret_passages),
                   wizard_ret_passages)

\* lines 329-332 and 339-342: one "title sentence" string
FormatCand(title, p, knowledge_separator) ==
    IF knowledge_separator
    THEN Format3(title, TOKEN_KNOWLEDGE, p)
    ELSE Format2(title, p)

\* lines 329-332: the label of chosen_sent mode
FormatLabel(title, sentence, knowledge_separator) ==
    IF knowledge_separator /\ title # TOKEN_NOCHOSEN
    THEN Format3(title, TOKEN_KNOWLEDGE, sentence)
    ELSE Format2(title, sentence)

\* lines 338-344, for one title: the candidates of its sentences
RECURSIVE PassageCands(_, _, _)
PassageCands(title, passage, knowledge_separator) ==
    IF Len(passage) = 0 THEN << >>
    ELSE <<FormatCand(title, Head(passage), knowledge_separator)>>
         \o PassageCands(title, Tail(passage), knowledge_separator)

\* lines 337-344: the candidates of the whole mapping, in insertion order
RECURSIVE KnowledgeCands(_, _)
KnowledgeCands(knowledge_dict, knowledge_separator) ==
    IF Len(knowledge_dict) = 0 THEN << >>
    ELSE PassageCands(Head(knowledge_dict).k, Head(knowledge_dict).v, knowledge_separator)
         \o KnowledgeCands(Tail(knowledge_dict), knowledge_separator)

\* line 343: knowledge_str += cand + '\n'
RECURSIVE KnowledgeStr(_)
KnowledgeStr(cands) ==
    IF Len(cands) = 0 THEN ""
    ELSE Head(cands) \o "\n" \o KnowledgeStr(Tail(cands))

\* line 274 with wizard_first = False (line 273)
WizardIdx(entry_idx) ==
    LET wizard_first == FALSE
    IN  IF wizard_first THEN entry_idx * 2 ELSE (entry_idx * 2) + 1

\* mutant of GetText: the commented-out branch of lines 310-314 restored, the
\* first response carrying the chosen topic before the apprentice's message
GetText_TopicFirst(label_type, d, idx) ==
    IF idx = 0 THEN [exc |-> "none", text |-> d.chosen_topic]
    ELSE IF idx = 1
    THEN [exc |-> "none", text |-> d.chosen_topic \o "\n" \o d.dialog[idx].text]
    ELSE IF label_type = "chosen_sent"
    THEN [exc |-> "none",
          text |-> d.dialog[idx - 1].text \o "\n" \o d.dialog[idx].text]
    ELSE [exc |-> "none", text |-> d.dialog[idx].text]

\* lines 304-321.  dialog is 0-based in the code: dialog[j] is d.dialog[j + 1].
\* wizard_prev_entry is bound only when idx - 2 >= 0 (line 282).
GetText(label_type, d, idx) ==
    IF idx = 0 THEN [exc |-> "none", text |-> d.chosen_topic]
    ELSE IF label_type = "chosen_sent"
    THEN IF idx >= 2
         THEN [exc |-> "none",
               text |-> d.dialog[idx - 1].text \o "\n" \o d.dialog[idx].text]
         ELSE Raised("UnboundLocalError")
    ELSE [exc |-> "none", text |-> d.dialog[idx].text]

\* mutant of BuildKnowledge: the wizard passages are read from the wizard
\* turn idx itself instead of the previous wizard turn idx - 2
BuildKnowledge_CurrentWizard(d, idx) ==
    LET apprentice_ret_passages == d.dialog[idx].retrieved_passages
        wizard_ret_passages == d.dialog[idx + 1].retrieved_passages
        start ==
            IF d.chosen_topic # ""
            THEN <<Entry(d.chosen_topic, d.chosen_topic_passage)>>
            ELSE d.dialog[idx + 1].retrieved_passages[1]
    IN  MergeKnowledge(start, apprentice_ret_passages, wizard_ret_passages)

\* lines 286-302: the mapping after the merge.  With an empty chosen_topic
\* knowledge_dict IS the dict wiz_passages[0] of the loaded data (no copy).
BuildKnowledge(d, idx) ==
    LET apprentice_ret_passages == d.dialog[idx].retrieved_passages
        wizard_ret_passages ==
            IF idx >= 2 THEN d.dialog[idx - 1].retrieved_passages ELSE << >>
        start ==
            IF d.chosen_topic # ""
            THEN <<Entry(d.chosen_topic, d.chosen_topic_passage)>>
            ELSE d.dialog[idx + 1].retrieved_passages[1]
    IN  MergeKnowledge(start, apprentice_ret_passages, wizard_ret_passages)

\* the loaded data after lines 298-302 ran: the merge wrote through the alias
DataAfterMerge(dat, episode_idx, idx, knowledge_dict) ==
    IF dat[episode_idx].chosen_topic # ""
    THEN dat
    ELSE [dat EXCEPT ![episode_idx].dialog[idx + 1].retrieved_passages[1] = knowledge_dict]

\* lines 345-349
ResponseCands(datatype, wizard_entry) ==
    IF Contains(datatype, "train") THEN << >>
    ELSE IF HasField(wizard_entry, "candidate_responses")
    THEN wizard_entry.candidate_responses ELSE << >>

DialogKnowledgeGet(t, dat, episode_idx, entry_idx) ==
    LET d == dat[episode_idx]
        episode_done == (entry_idx + 1 = len_episode(dat, episode_idx))
        idx == WizardIdx(entry_idx)
        wizard_entry == d.dialog[idx + 1]
    IN  IF d.chosen_topic = "" /\ Len(wizard_entry.retrieved_passages) = 0
        THEN [exc |-> "IndexError", data |-> dat]       \* wiz_passages[0], line 296
        ELSE
        LET knowledge_dict == BuildKnowledge(d, idx)
            dat2 == DataAfterMerge(dat, episode_idx, idx, knowledge_dict)
            txt == GetText(t.label_type, d, idx)
        IN  IF txt.exc # "none"
            THEN [exc |-> txt.exc, data |-> dat2]       \* line 320
            ELSE
            LET chosen == get_chosen_title_and_sent(wizard_entry, knowledge_dict)
                needs_chosen ==
                    t.label_type # "response" \/ t.include_checked_sentence
            IN  IF needs_chosen /\ chosen.exc # "none"
                THEN [exc |-> chosen.exc, data |-> dat2] \* lines 328, 362
                ELSE
                LET labels ==
                        IF t.label_type = "response"
                        THEN <<wizard_entry.text>>
                        ELSE <<FormatLabel(chosen.title, chosen.sentence,
                                           t.knowledge_separator)>>
                    cands == KnowledgeCands(knowledge_dict, t.knowledge_separator)
                    label_cands ==
                        IF t.label_type = "response"
                        THEN ResponseCands(t.datatype, wizard_entry)
                        ELSE <<Format2(TOKEN_NOCHOSEN, TOKEN_NOCHOSEN)>> \o cands
                IN  [exc |-> "none",
                     data |-> dat2,
                     knowledge_dict |-> knowledge_dict,
                     msg |-> [id |-> "TopicalChatDialogKnowledgeTeacher",
                              text |-> txt.text,
                              labels |-> labels,
                              chosen_topic |-> d.chosen_topic,
                              episode_done |-> episode_done,
                              label_candidates |-> label_cands,
                              knowledge |->
                                  IF t.include_knowledge THEN KnowledgeStr(cands) ELSE "",
                              title |->
                                  IF t.include_checked_sentence THEN chosen.title ELSE "",
                              checked_sentence |->
                                  IF t.include_checked_sentence THEN chosen.sentence ELSE "",
                              keys |->
                                  (IF t.include_knowledge THEN {"knowledge"} ELSE {})
                                  \cup (IF t.include_checked_sentence
                                        THEN {"title", "checked_sentence"} ELSE {})]]

(***************************************************************************)
(* GeneratorTeacher.get (agents.py 422-461).  `draw` is the value of       *)
(* random.random(), in hundredths; t.dropout is in hundredths too.         *)
(***************************************************************************)
\* line 449: random.random() < self.dropout
DropoutFires(draw, dropout) == draw < dropout

\* lines 445-447
CheckedKnowledge(a) == a.title \o " " \o TOKEN_KNOWLEDGE \o " " \o a.checked_sentence

\* lines 457-459
PrependGold(a, delimiter) ==
    TOKEN_KNOWLEDGE \o " " \o a.checked_sentence \o " " \o TOKEN_END_KNOWLEDGE
        \o delimiter \o a.text

\* variant of GeneratorShape in which the prepend is an `if` of its own
\* rather than the `elif` of the dropout
GeneratorShape_DropoutThenPrepend(t, a, draw) ==
    IF "knowledge" \notin a.keys
    THEN a
    ELSE LET a1 == [a EXCEPT !.label_candidates = << >>]
             a2 == IF t.only_checked_knowledge
                   THEN [a1 EXCEPT !.knowledge = CheckedKnowledge(a1)]
                   ELSE a1
             a3 == IF DropoutFires(draw, t.dropout)
                   THEN [a2 EXCEPT !.title = TOKEN_NOCHOSEN,
                                   !.checked_sentence = TOKEN_NOCHOSEN,
                                   !.knowledge = TOKEN_NOCHOSEN \o " " \o TOKEN_KNOWLEDGE
                                                     \o " " \o TOKEN_NOCHOSEN]
                   ELSE a2
         IN  IF t.prepend_gold_knowledge
             THEN [a3 EXCEPT !.text = PrependGold(a3, t.gold_knowledge_delimiter)]
             ELSE a3

\* lines 425-461, applied to the message a that super().get returned
GeneratorShape(t, a, draw) ==
    IF "knowledge" \notin a.keys
    THEN a
    ELSE LET a1 == [a EXCEPT !.label_candidates = << >>]
             a2 == IF t.only_checked_knowledge
                   THEN [a1 EXCEPT !.knowledge = CheckedKnowledge(a1)]
                   ELSE a1
         IN  IF DropoutFires(draw, t.dropout)
             THEN [a2 EXCEPT !.title = TOKEN_NOCHOSEN,
                             !.checked_sentence = TOKEN_NOCHOSEN,
                             !.knowledge = TOKEN_NOCHOSEN \o " " \o TOKEN_KNOWLEDGE
                                               \o " " \o TOKEN_NOCHOSEN]
             ELSE IF t.prepend_gold_knowledge
             THEN [a2 EXCEPT !.text = PrependGold(a2, t.gold_knowledge_delimiter)]
             ELSE a2

GeneratorGet(t, dat, episode_idx, entry_idx, draw) ==
    LET r == DialogKnowledgeGet(t, dat, episode_idx, entry_idx)
    IN  IF r.exc # "none" THEN r
        ELSE [r EXCEPT !.msg = GeneratorShape(t, r.msg, draw)]

(***************************************************************************)
(* Construction (agents.py 122-139, 203-210, 377-386): the attributes a    *)
(* teacher holds after __init__, from the options it was given.            *)
(***************************************************************************)
TopicalChatTeacherInit(datatype) ==
    [cls |-> "TopicalChatTeacher",
     datatype |-> datatype,
     label_type |-> "response",
     include_knowledge |-> TRUE,
     include_checked_sentence |-> FALSE,
     knowledge_separator |-> FALSE,
     only_checked_knowledge |-> FALSE,
     prepend_gold_knowledge |-> FALSE,
     gold_knowledge_delimiter |-> "\n",
     dropout |-> 0]

\* opt: label_type, include_knowledge, include_checked_sentence,
\* include_knowledge_separator
DialogKnowledgeTeacherInit(datatype, lt, ik, ics, sep) ==
    [TopicalChatTeacherInit(datatype) EXCEPT
        !.cls = "TopicalChatDialogKnowledgeTeacher",
        !.label_type = lt,
        !.include_knowledge = ik,
        !.include_checked_sentence = ics,
        !.knowledge_separator = sep]

\* opt['label_type'] = 'response'; opt['include_checked_sentence'] = True
\* opt: include_knowledge, include_knowledge_separator, only_checked_knowledge,
\* prepend_gold_knowledge, ignorant_dropout (in hundredths)
GeneratorTeacherInit(datatype, ik, sep, ock, pgk, p) ==
    [DialogKnowledgeTeacherInit(datatype, "response", ik, TRUE, sep) EXCEPT
        !.cls = "GeneratorTeacher",
        !.only_checked_knowledge = ock,
        !.prepend_gold_knowledge = pgk,
        !.dropout = p]

(***************************************************************************)
(* The episodes the JSON file may hold.                                    *)
(***************************************************************************)
Turn(text, passages, checked_sentence, checked_passage, candidate_responses, keys) ==
    [text |-> text,
     retrieved_topics |-> [i \in DOMAIN passages |-> first_key(passages[i])],
     retrieved_passages |-> passages,
     checked_sentence |-> checked_sentence,
     checked_passage |-> checked_passage,
     candidate_responses |-> candidate_responses,
     keys |-> keys]

Episode(chosen_topic, chosen_topic_passage, dialog) ==
    [chosen_topic |-> chosen_topic,
     chosen_topic_passage |-> chosen_topic_passage,
     dialog |-> dialog]

PCoffee == <<Entry("Coffee", <<"Beans are roasted.">>)>>
PTea == <<Entry("Tea", <<"Tea is a leaf.", "Tea is old.">>)>>
PTeaGreen == <<Entry("Tea", <<"Tea is green.">>)>>
PAB == <<Entry("a b", <<"Tea is green.">>)>>

ApprenticeTurns ==
    { Turn("I like coffee", << >>, EmptyDict, EmptyDict, << >>, {}),
      Turn("And tea?", <<PTea, PCoffee>>, EmptyDict, EmptyDict, << >>, {}) }

CoffeeWizardTurn ==
    Turn("Coffee is a drink.", << >>,
         <<Entry("wizard_Coffee_0", "Coffee is a drink.")>>, EmptyDict, << >>,
         {"checked_sentence"})

WizardTurns ==
    { CoffeeWizardTurn,
      Turn("Tea is green.", <<PTeaGreen, PAB>>,
           <<Entry("k_ab", "Tea is green.")>>, <<Entry("chosen", "Tea")>>,
           <<"Tea is green.", "No.">>,
           {"checked_sentence", "checked_passage", "candidate_responses"}),
      Turn("I see.", <<PCoffee>>,
           <<Entry("no_passages_used", TOKEN_NOCHOSEN)>>,
           <<Entry("no_passages_used", TOKEN_NOCHOSEN)>>, << >>,
           {"checked_sentence", "checked_passage"}) }

\* apprentice first: the even turns (0-based) are the apprentice's
Dialogs(n) ==
    { dlg \in [1..n -> ApprenticeTurns \cup WizardTurns] :
        \A j \in 1..n : IF j % 2 = 1 THEN dlg[j] \in ApprenticeTurns
                                     ELSE dlg[j] \in WizardTurns }

CoffeeEpisode ==
    Episode("Coffee", <<"Coffee is a drink.">>,
            <<Turn("I like coffee", << >>, EmptyDict, EmptyDict, << >>, {}),
              CoffeeWizardTurn>>)

Episodes ==
    { Episode(topic, <<"Coffee is a drink.">>, dlg) :
        topic \in {"Coffee", ""}, dlg \in UNION { Dialogs(n) : n \in 0..MaxTurns } }

Datatypes == {"train", "valid"}
DropoutValues == {0, 50, 100}
RandomDraws == {0, 99}

\* the raw teacher and the knowledge-augmented teacher, over their options
Teachers ==
    { TopicalChatTeacherInit(dt) : dt \in {"train"} }
    \cup { DialogKnowledgeTeacherInit(dt, lt, ik, ics, sep) :
             dt \in Datatypes, lt \in {"response", "chosen_sent"},
             ik \in BOOLEAN, ics \in BOOLEAN, sep \in BOOLEAN }

\* the generator teacher, over its options
GeneratorTeachers ==
    { GeneratorTeacherInit(dt, ik, sep, ock, pgk, p) :
             dt \in {"train"}, ik \in BOOLEAN, sep \in BOOLEAN,
             ock \in BOOLEAN, pgk \in BOOLEAN, p \in DropoutValues }

NoCall == [cls |-> "none"]
NoResult == [exc |-> "nocall"]
NoTeacher == [cls |-> "none"]

(***************************************************************************)
(* The teachers as a state machine: one group of instances sharing data.   *)
(***************************************************************************)
TeacherIdle ==
    /\ file = << >>
    /\ data = << >>
    /\ teacher = NoTeacher
    /\ nTeachers = 0
    /\ call = NoCall
    /\ result = NoResult

ResolverIdle ==
    /\ r_entry = Turn("", << >>, EmptyDict, EmptyDict, << >>, {})
    /\ r_kdict = EmptyDict
    /\ r_out = NoResult

NoInput == [inputs |-> << >>, knowledge_key |-> ""]

WorldIdle ==
    /\ w_opt = [cls |-> "none"]
    /\ w_history = << >>
    /\ w_observed = << >>
    /\ w_call = "none"
    /\ w_input = NoInput

Files == { <<CoffeeEpisode, e>> : e \in Episodes }

\* __init__ without shared data: _setup_data loads the file (lines 136-137, 141-144)
Load(f, t) ==
    /\ file = f
    /\ data = f
    /\ teacher = t
    /\ nTeachers = 1
    /\ call = NoCall
    /\ result = NoResult

Init ==
    /\ \E f \in Files, t \in Teachers : Load(f, t)
    /\ ResolverIdle
    /\ WorldIdle

InitGenerator ==
    /\ \E f \in Files, t \in GeneratorTeachers : Load(f, t)
    /\ ResolverIdle
    /\ WorldIdle

\* share() and __init__ with shared['data'] (lines 173-176, 133-134): one more
\* instance whose self.data is the same list object and whose options are the
\* same.  Every instance of the group answers a get alike, so a get is an
\* action of the group.
Share ==
    /\ nTeachers < MaxTeachers
    /\ nTeachers' = nTeachers + 1
    /\ UNCHANGED <<file, data, teacher, call, result>>

\* what the caller sees of a get: the returned message or the exception.
\* For the knowledge teachers the final value of the local knowledge_dict
\* is kept beside the message.
Returned(r) ==
    IF r.exc # "none" THEN [exc |-> r.exc]
    ELSE IF "knowledge_dict" \in DOMAIN r
    THEN [exc |-> "none", msg |-> r.msg, knowledge_dict |-> r.knowledge_dict]
    ELSE [exc |-> "none", msg |-> r.msg]

\* episode_idx counts from 1 in the model (data[1] is the code's data[0]);
\* entry_idx counts from 0 as in the code.
Called(episode_idx, entry_idx, draw) ==
    [cls |-> teacher.cls, episode_idx |-> episode_idx, entry_idx |-> entry_idx,
     draw |-> draw]

RawGet(episode_idx, entry_idx) ==
    /\ teacher.cls = "TopicalChatTeacher"
    /\ LET r == TopicalChatGet(data, episode_idx, entry_idx)
       IN  /\ data' = r.data
           /\ result' = Returned(r)
    /\ call' = Called(episode_idx, entry_idx, 0)
    /\ UNCHANGED <<file, teacher, nTeachers>>

KnowledgeGet(episode_idx, entry_idx) ==
    /\ teacher.cls = "TopicalChatDialogKnowledgeTeacher"
    /\ LET r == DialogKnowledgeGet(teacher, data, episode_idx, entry_idx)
       IN  /\ data' = r.data
           /\ result' = Returned(r)
    /\ call' = Called(episode_idx, entry_idx, 0)
    /\ UNCHANGED <<file, teacher, nTeachers>>

GeneratorTeacherGet(episode_idx, entry_idx, draw) ==
    /\ teacher.cls = "GeneratorTeacher"
    /\ LET r == GeneratorGet(teacher, data, episode_idx, entry_idx, draw)
       IN  /\ data' = r.data
           /\ result' = Returned(r)
    /\ call' = Called(episode_idx, entry_idx, draw)
    /\ UNCHANGED <<file, teacher, nTeachers>>

\* the valid indices: the caller's contract
RawEntries(ep) == 0..(Len(data[ep].dialog) - 1)
Entries(ep) == 0..(len_episode(data, ep) - 1)

Next ==
    \/ Share /\ UNCHANGED <<resolverVars, worldVars>>
    \/ \E ep \in DOMAIN data : \E i \in RawEntries(ep) :
          RawGet(ep, i) /\ UNCHANGED <<resolverVars, worldVars>>
    \/ \E ep \in DOMAIN data : \E i \in Entries(ep) :
          KnowledgeGet(ep, i) /\ UNCHANGED <<resolverVars, worldVars>>

Spec == Init /\ [][Next]_vars

NextGenerator ==
    \E ep \in DOMAIN data : \E i \in Entries(ep) : \E draw \in RandomDraws :
        GeneratorTeacherGet(ep, i, draw) /\ UNCHANGED <<resolverVars, worldVars>>

SpecGenerator == InitGenerator /\ [][NextGenerator]_vars

(***************************************************************************)
(* _get_chosen_title_and_sent as a function of its arguments: the          *)
(* arguments are drawn from bounded sets and the function is applied.      *)
(***************************************************************************)
MaxEntries == 2

ResolverTitles == {"Coffee", "Tea", "a b", "0"}
ResolverSentences == {"Coffee is a drink.", "Tea is green."}
ResolverPassages ==
    { <<"Coffee is a drink.">>, <<"Tea is green.">>,
      <<"Tea is old.", "Tea is green.">> }

\* the mappings of at most MaxEntries titles, in every insertion order
ResolverKDicts ==
    UNION { { kd \in [1..n -> { Entry(t, p) : t \in ResolverTitles, p \in ResolverPassages }] :
                \A i, j \in 1..n : i # j => kd[i].k # kd[j].k } : n \in 0..MaxEntries }

CheckedSentences ==
    { <<Entry(key, s)>> : key \in {"wizard_Coffee_0", "k_ab", "Tea"},
                          s \in ResolverSentences \cup {TOKEN_NOCHOSEN} }

CheckedPassages ==
    { <<Entry("chosen", t)>> : t \in {"Coffee", "Tea", "a b"} }

\* wizard entries with the optional keys present or absent (an absent key
\* has no value)
ResolverEntries ==
    { Turn("Okay.", << >>,
           IF "checked_sentence" \in keys THEN cs ELSE EmptyDict,
           IF "checked_passage" \in keys THEN cp ELSE EmptyDict,
           << >>, keys) :
        cs \in CheckedSentences \cup {EmptyDict},
        cp \in CheckedPassages \cup {EmptyDict},
        keys \in SUBSET {"checked_sentence", "checked_passage"} }

InitResolver ==
    /\ r_entry \in ResolverEntries
    /\ r_kdict \in ResolverKDicts
    /\ r_out = NoResult
    /\ TeacherIdle
    /\ WorldIdle

Resolve ==
    /\ r_out' = get_chosen_title_and_sent(r_entry, r_kdict)
    /\ UNCHANGED <<r_entry, r_kdict>>

NextResolver == Resolve /\ UNCHANGED <<teacherVars, worldVars>>

SpecResolver == InitResolver /\ [][NextResolver]_vars

(***************************************************************************)
(* worlds.py: GeneratorWorld and InteractiveGeneratorWorld.  The model     *)
(* agent belongs to the framework: of it the model keeps the replies the   *)
(* world added to its history and the messages the world handed to         *)
(* observe().  validate() returns the message it is given.                 *)
(***************************************************************************)
Utterances == {" hi ", "ok"}
Delimiters == {"\n", " "}

Histories == UNION { [1..n -> Utterances] : n \in 0..MaxHistory }

\* one input: {'knowledge': str, 'checked_sentence': str, 'text': str}
Inputs ==
    { [knowledge |-> " Coffee is a drink. \n", checked_sentence |-> "Coffee is a drink.",
       text |-> "I like coffee"],
      [knowledge |-> "Tea is green.", checked_sentence |-> " Tea is green.",
       text |-> "And tea?"] }

\* for utterance in user_input['history']: history.add_reply(utterance.strip())
RECURSIVE AddReplies(_, _)
AddReplies(history, utterances) ==
    IF Len(utterances) = 0 THEN history
    ELSE AddReplies(Append(history, Strip(Head(utterances))), Tail(utterances))

\* f"{TOKEN_KNOWLEDGE} {knowledge} {TOKEN_END_KNOWLEDGE}{delimiter}{text}"
WrapKnowledge(knowledge, delimiter, text) ==
    TOKEN_KNOWLEDGE \o " " \o knowledge \o " " \o TOKEN_END_KNOWLEDGE
        \o delimiter \o text

\* worlds.py 36-38
OneSampleAct(delimiter, user_input) ==
    [id |-> "",
     text |-> WrapKnowledge(user_input.checked_sentence, delimiter, user_input.text),
     episode_done |-> TRUE]

\* worlds.py 59-61
BatchAct(delimiter, inp, knowledge_key) ==
    [id |-> "",
     text |-> WrapKnowledge(inp[knowledge_key], delimiter, inp.text),
     episode_done |-> FALSE]

\* mutant of InteractiveAct: episode_done False, as in the batched parley
InteractiveAct_NotDone(delimiter, user_input) ==
    [id |-> "TopicalChat GeneratorTeacher",
     text |-> WrapKnowledge(Strip(user_input.knowledge), delimiter, user_input.text),
     episode_done |-> FALSE]

\* worlds.py 88-91
InteractiveAct(delimiter, user_input) ==
    [id |-> "TopicalChat GeneratorTeacher",
     text |-> WrapKnowledge(Strip(user_input.knowledge), delimiter, user_input.text),
     episode_done |-> TRUE]

InitWorld ==
    /\ w_opt \in [cls : {"GeneratorWorld", "InteractiveGeneratorWorld"},
                  gold_knowledge_delimiter : Delimiters]
    /\ w_history = << >>
    /\ w_observed = << >>
    /\ w_call = "none"
    /\ w_input = NoInput
    /\ TeacherIdle
    /\ ResolverIdle

\* GeneratorWorld.parley_one_sample (worlds.py 29-45)
ParleyOneSample(history, user_input) ==
    /\ w_opt.cls = "GeneratorWorld"
    /\ Len(w_history) + Len(history) <= MaxHistory
    /\ w_history' = AddReplies(w_history, history)
    /\ w_observed' = <<OneSampleAct(w_opt.gold_knowledge_delimiter, user_input)>>
    /\ w_call' = "parley_one_sample"
    /\ w_input' = [inputs |-> <<user_input>>, knowledge_key |-> "checked_sentence"]
    /\ UNCHANGED w_opt

\* GeneratorWorld.parley (worlds.py 48-71): each item resets the history and
\* replays user_input['history'] before it is observed
ParleyBatch(history, inputs, knowledge_key) ==
    /\ w_opt.cls = "GeneratorWorld"
    /\ w_history' = IF Len(inputs) = 0 THEN w_history ELSE AddReplies(<< >>, history)
    /\ w_observed' = [i \in DOMAIN inputs |->
                         BatchAct(w_opt.gold_knowledge_delimiter, inputs[i], knowledge_key)]
    /\ w_call' = "parley"
    /\ w_input' = [inputs |-> inputs, knowledge_key |-> knowledge_key]
    /\ UNCHANGED w_opt

\* InteractiveGeneratorWorld.parley (worlds.py 83-98)
InteractiveParley(history, user_input) ==
    /\ w_opt.cls = "InteractiveGeneratorWorld"
    /\ Len(w_history) + Len(history) <= MaxHistory
    /\ w_history' = AddReplies(w_history, history)
    /\ w_observed' = <<InteractiveAct(w_opt.gold_knowledge_delimiter, user_input)>>
    /\ w_call' = "interactive_parley"
    /\ w_input' = [inputs |-> <<user_input>>, knowledge_key |-> "knowledge"]
    /\ UNCHANGED w_opt

NextWorld ==
    \/ \E h \in Histories, u \in Inputs :
          ParleyOneSample(h, u) /\ UNCHANGED <<teacherVars, resolverVars>>
    \/ \E h \in Histories, n \in 0..MaxBatch :
          \E inputs \in [1..n -> Inputs], key \in {"knowledge", "checked_sentence"} :
             ParleyBatch(h, inputs, key) /\ UNCHANGED <<teacherVars, resolverVars>>
    \/ \E h \in Histories, u \in Inputs :
          InteractiveParley(h, u) /\ UNCHANGED <<teacherVars, resolverVars>>

SpecWorld == InitWorld /\ [][NextWorld]_vars

(***************************************************************************)
(* Properties of the teachers.                                             *)
(***************************************************************************)
KnowledgeReturned ==
    /\ call.cls = "TopicalChatDialogKnowledgeTeacher"
    /\ result.exc = "none"

\* the (title, sentences) entries of a list of passages
PassageEntries(ret_passes) ==
    UNION { { ret_passes[i][j] : j \in DOMAIN ret_passes[i] } : i \in DOMAIN ret_passes }

\* the entries the file holds in the retrieved passages of the turns 0 .. last
\* (0-based turn numbers) of episode ep
EntriesUpTo(ep, last) ==
    UNION { PassageEntries(file[ep].dialog[j + 1].retrieved_passages) :
              j \in { n \in 0..last : n + 1 <= Len(file[ep].dialog) } }

\* C1: the loaded episodes are never mutated: after any sequence of get calls
\* the data held by the teachers (shared by every instance of the group) is
\* what was loaded from the file.
C1_DataNeverMutated == data = file

\* C2: the Knowledge Mapping built for example i holds only the chosen-topic
\* passage and passages retrieved in turns 0 .. 2*i, whether chosen_topic is
\* empty or not.
C2_NoLaterPassages ==
    KnowledgeReturned =>
        \A n \in DOMAIN result.knowledge_dict :
            \/ result.knowledge_dict[n] =
                   Entry(file[call.episode_idx].chosen_topic,
                         file[call.episode_idx].chosen_topic_passage)
            \/ result.knowledge_dict[n] \in EntriesUpTo(call.episode_idx, 2 * call.entry_idx)

\* C2 as amended: the Knowledge Mapping built for example i holds only its
\* primary source (the chosen-topic passage, or with an empty chosen_topic
\* the first retrieved passage of the wizard turn 2*i+1 itself) and passages
\* retrieved in turns 0 .. 2*i.
C2_OnlyPrimaryAndEarlierPassages ==
    KnowledgeReturned =>
        LET ep == file[call.episode_idx]
            wiz == ep.dialog[2 * call.entry_idx + 2]
        IN  \A n \in DOMAIN result.knowledge_dict :
                \/ /\ ep.chosen_topic # ""
                   /\ result.knowledge_dict[n] =
                          Entry(ep.chosen_topic, ep.chosen_topic_passage)
                \/ /\ ep.chosen_topic = ""
                   /\ result.knowledge_dict[n] \in
                          PassageEntries(<<wiz.retrieved_passages[1]>>)
                \/ result.knowledge_dict[n] \in
                       EntriesUpTo(call.episode_idx, 2 * call.entry_idx)

\* C2 witness: example 0 of an episode with an empty chosen_topic was built,
\* a later passage of the wizard turn and the passages of later turns exist,
\* and none of them is in the mapping.
C2_Witness ==
    /\ KnowledgeReturned
    /\ call.entry_idx = 0
    /\ file[call.episode_idx].chosen_topic = ""
    /\ Len(file[call.episode_idx].dialog) >= 4
    /\ \E e \in PassageEntries(file[call.episode_idx].dialog[2].retrieved_passages) :
          ~HasKey(result.knowledge_dict, e.k)
    /\ \E e \in PassageEntries(file[call.episode_idx].dialog[3].retrieved_passages) :
          ~InList(e, result.knowledge_dict)

\* C3: len_episode(ep) is len(dialog) // 2, and the Example of a valid
\* entry_idx has episode_done true exactly at entry_idx = len(dialog) // 2 - 1.
C3_EpisodeDoneAtLast ==
    KnowledgeReturned =>
        LET n == Len(file[call.episode_idx].dialog) \div 2
        IN  /\ call.entry_idx \in 0..(n - 1)
            /\ result.msg.episode_done = (call.entry_idx = n - 1)

\* C3 witness: the last example of a two-example episode was returned as done.
C3_Witness ==
    /\ KnowledgeReturned
    /\ Len(file[call.episode_idx].dialog) \in {4, 5}
    /\ call.entry_idx = 1
    /\ result.msg.episode_done

IsCoffeeCall ==
    /\ call.cls = "TopicalChatDialogKnowledgeTeacher"
    /\ file[call.episode_idx] = CoffeeEpisode
    /\ call.entry_idx = 0

C5_ChosenSentReturns ==
    (/\ call.cls = "TopicalChatDialogKnowledgeTeacher"
     /\ teacher.label_type = "chosen_sent") =>
        /\ result.exc = "none"
        /\ \E title \in DictKeys(result.knowledge_dict) \cup {"", TOKEN_NOCHOSEN} :
              result.msg.labels =
                  <<title \o " "
                    \o first_val(file[call.episode_idx].dialog[2 * call.entry_idx + 2]
                                     .checked_sentence)>>
        /\ IsCoffeeCall => result.msg.labels = <<"Coffee Coffee is a drink.">>

\* C6: with ignorant-dropout = 1.0 every Example GeneratorTeacher.get
\* produces, whatever the other options, has title and checked_sentence equal
\* to TOKEN_NOCHOSEN and knowledge equal to
\* "no_passages_used __knowledge__ no_passages_used".
C6_FullDropoutErasesKnowledge ==
    (call.cls = "GeneratorTeacher" /\ teacher.dropout = 100 /\ result.exc = "none") =>
        /\ result.msg.title = TOKEN_NOCHOSEN
        /\ result.msg.checked_sentence = TOKEN_NOCHOSEN
        /\ "knowledge" \in result.msg.keys
        /\ result.msg.knowledge = "no_passages_used __knowledge__ no_passages_used"

\* the sources of the merge of get(episode_idx, entry_idx) over the data dat,
\* in merge order: the primary source, then each retrieved passage of the
\* apprentice turn idx-1, then each retrieved passage of the wizard turn idx-2
C7_Sources(dat, episode_idx, entry_idx) ==
    LET d == dat[episode_idx]
        idx == 2 * entry_idx + 1
    IN  << IF d.chosen_topic # ""
           THEN <<Entry(d.chosen_topic, d.chosen_topic_passage)>>
           ELSE d.dialog[idx + 1].retrieved_passages[1] >>
        \o d.dialog[idx].retrieved_passages
        \o (IF idx >= 2 THEN d.dialog[idx - 1].retrieved_passages ELSE << >>)

\* kd is the first-writer-wins union of the sources srcs
C7_IsFirstWriterWins(kd, srcs) ==
    LET Pos == UNION { { <<m, j>> : j \in DOMAIN srcs[m] } : m \in DOMAIN srcs }
        At(p) == srcs[p[1]][p[2]]
        Earlier(p, q) == p[1] < q[1] \/ (p[1] = q[1] /\ p[2] < q[2])
    IN  /\ \A n1, n2 \in DOMAIN kd : n1 # n2 => kd[n1].k # kd[n2].k
        /\ DictKeys(kd) = { At(p).k : p \in Pos }
        /\ \A n \in DOMAIN kd :
              \E p \in Pos :
                  /\ At(p) = kd[n]
                  /\ \A q \in Pos : At(q).k = kd[n].k => ~Earlier(q, p)

\* C7: the merge is first-writer-wins in the order primary source, apprentice
\* turn idx-1, prior wizard turn idx-2: every get of the knowledge teacher
\* that returns leaves a mapping in which each title of the sources occurs
\* once, with the sentences of the earliest source that has it.
C7_MergeFirstWriterWins ==
    [][ (/\ nTeachers' = nTeachers
         /\ call'.cls = "TopicalChatDialogKnowledgeTeacher"
         /\ result'.exc = "none")
        => C7_IsFirstWriterWins(result'.knowledge_dict,
                                C7_Sources(data, call'.episode_idx, call'.entry_idx))
      ]_vars

\* C7 witness: a mapping was built for an episode whose chosen topic is also
\* a title retrieved for the apprentice with other sentences, and the mapping
\* holds the chosen-topic passage under that title.
C7_Witness ==
    /\ KnowledgeReturned
    /\ file[call.episode_idx].chosen_topic # ""
    /\ \E e \in PassageEntries(file[call.episode_idx]
                                   .dialog[2 * call.entry_idx + 1].retrieved_passages) :
          /\ e.k = file[call.episode_idx].chosen_topic
          /\ e.v # file[call.episode_idx].chosen_topic_passage
    /\ Lookup(result.knowledge_dict, file[call.episode_idx].chosen_topic)
           = file[call.episode_idx].chosen_topic_passage

(***************************************************************************)
(* Properties of the resolver.                                             *)
(***************************************************************************)
Resolved == r_out.exc # "nocall"

\* the turn has no checked sentence, or its checked sentence is the sentinel
C8_NoSentenceChosen ==
    \/ "checked_sentence" \notin r_entry.keys
    \/ r_entry.checked_sentence = EmptyDict
    \/ r_entry.checked_sentence[1].v = TOKEN_NOCHOSEN

\* C8: the resolver returns (TOKEN_NOCHOSEN, TOKEN_NOCHOSEN) whenever the
\* turn has no checked sentence or its checked sentence is TOKEN_NOCHOSEN,
\* for every mapping and every value or absence of checked_passage.
C8_SentinelPair ==
    (Resolved /\ C8_NoSentenceChosen) =>
        /\ r_out.exc = "none"
        /\ r_out.title = TOKEN_NOCHOSEN
        /\ r_out.sentence = TOKEN_NOCHOSEN

\* C8 witness: the resolver ran on a turn whose checked sentence is the
\* sentinel, with a non-empty mapping and a checked_passage naming one of
\* its titles.
C8_Witness ==
    /\ Resolved
    /\ r_entry.keys = {"checked_sentence", "checked_passage"}
    /\ r_entry.checked_sentence # EmptyDict
    /\ r_entry.checked_sentence[1].v = TOKEN_NOCHOSEN
    /\ r_entry.checked_passage # EmptyDict
    /\ HasKey(r_kdict, r_entry.checked_passage[1].v)
    /\ r_out.title = TOKEN_NOCHOSEN

\* the title synthesized from a checked-sentence key
C10_Synthesized(key) ==
    CASE key = "wizard_Coffee_0" -> "0"
      [] key = "k_ab" -> "a b"
      [] key = "Tea" -> "T e a"

\* C10: for a checked sentence s that is present and not TOKEN_NOCHOSEN the
\* resolver returns (t, s), t being the checked_passage value if the mapping
\* has it with s among its sentences, else the synthesized title under the
\* same test, else the first title of the mapping whose sentences hold s,
\* else the empty string.
C10_ResolvedTitle ==
    (Resolved /\ ~C8_NoSentenceChosen) =>
        LET s == r_entry.checked_sentence[1].v
            Holds(t) == \E n \in DOMAIN r_kdict :
                            r_kdict[n].k = t /\ InList(s, r_kdict[n].v)
            hasA == "checked_passage" \in r_entry.keys /\ r_entry.checked_passage # EmptyDict
            b == C10_Synthesized(r_entry.checked_sentence[1].k)
            found == { n \in DOMAIN r_kdict : InList(s, r_kdict[n].v) }
        IN  /\ r_out.exc = "none"
            /\ r_out.sentence = s
            /\ r_out.title =
                  IF hasA /\ Holds(r_entry.checked_passage[1].v)
                  THEN r_entry.checked_passage[1].v
                  ELSE IF Holds(b) THEN b
                  ELSE IF found # {}
                  THEN r_kdict[CHOOSE n \in found : \A m \in found : n <= m].k
                  ELSE ""

(***************************************************************************)
(* Properties of the worlds.                                               *)
(***************************************************************************)
\* C9: the observation InteractiveGeneratorWorld.parley hands to the agent
\* is not marked episode-ending, and its text is
\* "__knowledge__ {knowledge} __endknowledge__{delimiter}{text}".
C9_InteractiveNotEpisodeDone ==
    w_call = "interactive_parley" =>
        /\ Len(w_observed) = 1
        /\ w_observed[1].episode_done = FALSE
        /\ w_observed[1].text =
               "__knowledge__ " \o w_input.inputs[1].knowledge \o " __endknowledge__"
                   \o w_opt.gold_knowledge_delimiter \o w_input.inputs[1].text

\* C9 as amended: the observation InteractiveGeneratorWorld.parley hands to
\* the agent is marked episode-ending on every call, and its text is
\* "__knowledge__ {knowledge.strip()} __endknowledge__{delimiter}{text}".
C9_InteractiveEpisodeDone ==
    w_call = "interactive_parley" =>
        /\ Len(w_observed) = 1
        /\ w_observed[1].episode_done = TRUE
        /\ w_observed[1].text =
               "__knowledge__ " \o Strip(w_input.inputs[1].knowledge)
                   \o " __endknowledge__" \o w_opt.gold_knowledge_delimiter
                   \o w_input.inputs[1].text

\* C9 witness: an interactive parley with replayed history handed over an
\* episode-ending observation whose knowledge lost its surrounding blanks.
C9_Witness ==
    /\ w_call = "interactive_parley"
    /\ Len(w_history) = MaxHistory
    /\ w_input.inputs[1].knowledge = " Coffee is a drink. \n"
    /\ w_observed[1].episode_done
    /\ w_observed[1].text = "__knowledge__ Coffee is a drink. __endknowledge__\nI like coffee"

\* the Example the Knowledge-Augmented Teacher's get returns for the call
\* (episode_idx, entry_idx) over the data dat, with the generator's options
C11_Base(dat, episode_idx, entry_idx) ==
    DialogKnowledgeGet(teacher, dat, episode_idx, entry_idx).msg

C11_SentinelKnowledge == "no_passages_used __knowledge__ no_passages_used"

C11_Step ==
    (/\ call'.cls = "GeneratorTeacher"
     /\ result'.exc = "none"
     /\ "knowledge" \in result'.msg.keys) =>
        LET base == C11_Base(data, call'.episode_idx, call'.entry_idx)
            a == result'.msg
            fires == call'.draw < teacher.dropout
            checked == base.title \o " __knowledge__ " \o base.checked_sentence
        IN  /\ fires =>
                /\ a.title = TOKEN_NOCHOSEN
                /\ a.checked_sentence = TOKEN_NOCHOSEN
                /\ a.knowledge = C11_SentinelKnowledge
                /\ a.text = base.text
            /\ (~fires /\ teacher.prepend_gold_knowledge) =>
                /\ a.text = "__knowledge__ " \o base.checked_sentence
                                \o " __endknowledge__"
                                \o teacher.gold_knowledge_delimiter \o base.text
                /\ a.title = base.title
                /\ a.checked_sentence = base.checked_sentence
            /\ ~fires =>
                a.knowledge = IF teacher.only_checked_knowledge
                              THEN checked ELSE base.knowledge

\* C11: in one GeneratorTeacher.get call that returns an Example with a
\* knowledge field, dropout and prepending never both apply: a firing
\* dropout sets title, checked_sentence and knowledge to the sentinel form
\* and leaves text as the Knowledge-Augmented Teacher produced it, even with
\* prepend-gold-knowledge set; with no firing and prepend-gold-knowledge set
\* the text is "__knowledge__ {checked_sentence} __endknowledge__{delimiter}
\* {original_text}" and title, checked_sentence and knowledge keep their
\* values.  only-checked-knowledge is applied first and a firing dropout
\* overwrites its knowledge value.
C11_DropoutExcludesPrepend == [][C11_Step]_vars

\* a firing dropout on a teacher with prepend-gold-knowledge and
\* only-checked-knowledge set, over a turn whose checked sentence is real
C11_Witness ==
    /\ call.cls = "GeneratorTeacher"
    /\ result.exc = "none"
    /\ "knowledge" \in result.msg.keys
    /\ teacher.prepend_gold_knowledge
    /\ teacher.only_checked_knowledge
    /\ call.draw < teacher.dropout
    /\ file[call.episode_idx].dialog[2 * call.entry_idx + 2].checked_sentence
           # EmptyDict
    /\ result.msg.knowledge = C11_SentinelKnowledge
    /\ result.msg.text =
           file[call.episode_idx].dialog[2 * call.entry_idx + 1].text

\* the Example get(episode_idx, entry_idx) returns on a freshly loaded
\* teacher with the same options: no earlier get has run on the data
C12_Fresh == DialogKnowledgeGet(teacher, file, call.episode_idx, call.entry_idx)

\* C12: the Example returned by TopicalChatDialogKnowledgeTeacher.get(ep, i)
\* is a function of (ep, i) and the options only: whatever gets ran before on
\* this or a data-sharing instance, the returned text, labels, knowledge and
\* label_candidates are those of the same call on freshly loaded data, for
\* empty and non-empty chosen_topic.
C12_GetIsHistoryIndependent ==
    (call.cls = "TopicalChatDialogKnowledgeTeacher" /\ result.exc = "none") =>
        /\ C12_Fresh.exc = "none"
        /\ result.msg.text = C12_Fresh.msg.text
        /\ result.msg.labels = C12_Fresh.msg.labels
        /\ result.msg.knowledge = C12_Fresh.msg.knowledge
        /\ result.msg.label_candidates = C12_Fresh.msg.label_candidates

\* C13: with label-type chosen_sent, every Example the knowledge teacher's
\* get returns (knowledge separator on or off, checked sentence in the
\* Knowledge Mapping or not) has a single label that is a member of
\* label_candidates, and label_candidates begins with
\* "no_passages_used no_passages_used".
C13_LabelAmongCandidates ==
    (/\ call.cls = "TopicalChatDialogKnowledgeTeacher"
     /\ teacher.label_type = "chosen_sent"
     /\ result.exc = "none") =>
        /\ Len(result.msg.labels) = 1
        /\ Len(result.msg.label_candidates) >= 1
        /\ result.msg.label_candidates[1] = "no_passages_used no_passages_used"
        /\ \E n \in DOMAIN result.msg.label_candidates :
               result.msg.label_candidates[n] = result.msg.labels[1]

====
